---- MODULE Spec2Model ----
(***************************************************************************)
(* State-machine model of subbreaker: the Key translation object (key.py)  *)
(* and the quadgram Breaker (breaker.py).                                  *)
(*                                                                         *)
(* Characters are modelled by their code points (a = 97, A = 65, 1 = 49,   *)
(* - = 45).  Python strings are TLA+ sequences of code points; Python      *)
(* lists that the code indexes from 0 are functions over 0..len-1.         *)
(* Elapsed wall time and the derived keys_per_second are not modelled.     *)
(***************************************************************************)
EXTENDS Integers, Sequences, FiniteSets, TLC

VARIABLES
    pc,                 \* control point of the Breaker object's current call
    quadgrams,          \* Breaker._quadgrams, codes absent from the domain hold 0
    self_key,           \* Breaker.key
    ciphertext,         \* break_cipher argument
    max_rounds,         \* break_cipher argument
    consolidate,        \* break_cipher argument
    cipher_bin,         \* break_cipher local
    char_positions,     \* break_cipher local
    local_maximum,      \* break_cipher local
    local_maximum_hit,  \* break_cipher local
    key,                \* break_cipher local, mutated in place by _hill_climbing
    best_key,           \* break_cipher local
    round_cntr,         \* break_cipher loop variable
    next_round,         \* position of the range(max_rounds) iterator
    nbr_keys,           \* break_cipher local
    plaintext,          \* _hill_climbing local
    hc_nbr_keys,        \* _hill_climbing local nbr_keys
    max_fitness,        \* _hill_climbing local
    better_key,         \* _hill_climbing local
    idx1,               \* _hill_climbing loop variable
    idx2,               \* _hill_climbing loop variable
    outcome,            \* what the call returned or raised
    hist,               \* history of the current call (observation only)
    kargs,              \* the arguments Key(...) was called with (Key scenario)
    kobj,               \* the Key object under test (Key scenario)
    ktext,              \* text handed to encode/decode (Key scenario)
    kout,               \* result of the last Key operation (Key scenario)
    fcall,              \* the last call of a stand-alone function and its arguments
    fret                \* what that call returned, raised, read and wrote

vars == <<pc, quadgrams, self_key, ciphertext, max_rounds, consolidate,
          cipher_bin, char_positions, local_maximum, local_maximum_hit, key,
          best_key, round_cntr, next_round, nbr_keys, plaintext, hc_nbr_keys,
          max_fitness, better_key, idx1, idx2, outcome, hist,
          kargs, kobj, ktext, kout, fcall, fret>>

breakerVars == <<pc, quadgrams, self_key, ciphertext, max_rounds, consolidate,
          cipher_bin, char_positions, local_maximum, local_maximum_hit, key,
          best_key, round_cntr, next_round, nbr_keys, plaintext, hc_nbr_keys,
          max_fitness, better_key, idx1, idx2, outcome, hist>>

keyVars == <<kargs, kobj, ktext, kout>>

fnVars == <<fcall, fret>>

-----------------------------------------------------------------------------
(* Bounds of the model *)

\* number of symbols of the loaded model's alphabet (a, b, c, ...)
AlphaLen == 3
\* largest valid max_rounds value tried
MaxRoundsTried == 3
\* largest valid consolidate value tried
MaxConsolidateTried == 2
\* longest key / alphabet string handed to Key(...)
MaxKeyLen == 2
\* longest text handed to encode / decode
MaxTextLen == 2
\* longest text handed to calc_fitness / calc_fitness_file
MaxFitLen == 5

\* longest corpus handed to generate_quadgrams
MaxCorpusLen == 6
\* longest keyword handed to build_key_from_keyword
MaxKeywordLen == 3

\* small numbers of repetitions of a corpus pattern
MaxSmallReps == 3

(* Program constants *)
MaxRoundsLimit == 10000
ConsolidateLimit == 30
MaxAlphabetLen == 32
QuadgramMinStart == 10000000

-----------------------------------------------------------------------------
(* Python string and list helpers *)

Range(s) == {s[i] : i \in DOMAIN s}

\* str.lower() on one code point (ASCII letters carry case; everything else is
\* its own lower case)
LowerChar(c) == IF c \in 65..90 THEN c + 32 ELSE c

\* str.upper() on one code point; a character whose upper case is longer than
\* one character (e.g. 223, sharp s) is given as a sequence of two
UpperStr(c) == IF c \in 97..122 THEN <<c - 32>>
               ELSE IF c = 223 THEN <<83, 83>> ELSE <<c>>

lower(s) == [i \in DOMAIN s |-> LowerChar(s[i])]

\* list -> 0-based list
ToList(s) == [i \in 0..(Len(s) - 1) |-> s[i + 1]]

ListLen(l) == Cardinality(DOMAIN l)

\* list.index(v): the first position holding v
ListIndex(l, v) == CHOOSE i \in DOMAIN l : l[i] = v /\ \A j \in DOMAIN l : l[j] = v => i <= j

\* dict built from enumerate(): the last position of a repeated symbol wins
LastIndexOf(s, c) == CHOOSE i \in DOMAIN s : s[i] = c /\ \A j \in DOMAIN s : s[j] = c => j <= i

-----------------------------------------------------------------------------
(* key.py *)

NoTable == <<>>

Raised(exc, msg) == [exc |-> exc, msg |-> msg, val |-> <<>>]
Returned(val) == [exc |-> "", msg |-> "", val |-> val]

\* Key.check_alphabet
check_alphabet(alphabet) ==
    LET a == lower(alphabet)
    IN  IF Len(a) # Cardinality(Range(a))
        THEN Raised("AlphabetInvalid", "alphabet characters must be unique")
        ELSE Returned(a)

\* check_key with the length compared before the duplicates are looked for
check_key_length_first(k, alphabet) ==
    LET lk == lower(k)
        key_set == Range(lk)
    IN  IF Len(lk) # Len(alphabet)
        THEN Raised("KeyInvalid", "key must be as long as the alphabet")
        ELSE IF Len(lk) # Cardinality(key_set)
        THEN Raised("KeyInvalid", "key characters must be unique")
        ELSE IF key_set # Range(alphabet)
        THEN Raised("KeyInvalid", "key must use the same set of characters than the alphabet")
        ELSE Returned(lk)

\* check_key without the comparison of the two symbol sets
check_key_no_set_check(k, alphabet) ==
    LET lk == lower(k)
        key_set == Range(lk)
    IN  IF Len(lk) # Cardinality(key_set)
        THEN Raised("KeyInvalid", "key characters must be unique")
        ELSE IF Len(lk) # Len(alphabet)
        THEN Raised("KeyInvalid", "key must be as long as the alphabet")
        ELSE Returned(lk)

\* Key.check_key
check_key(k, alphabet) ==
    LET lk == lower(k)
        key_set == Range(lk)
    IN  IF Len(lk) # Cardinality(key_set)
        THEN Raised("KeyInvalid", "key characters must be unique")
        ELSE IF Len(lk) # Len(alphabet)
        THEN Raised("KeyInvalid", "key must be as long as the alphabet")
        ELSE IF key_set # Range(alphabet)
        THEN Raised("KeyInvalid", "key must use the same set of characters than the alphabet")
        ELSE Returned(lk)

\* an upper-casing that leaves every character as it is
_upper_none(string) == string

\* Key._upper
_upper(string) ==
    [i \in DOMAIN string |->
        IF Len(UpperStr(string[i])) = 1 THEN UpperStr(string[i])[1] ELSE string[i]]

\* str.maketrans(x, y) for two strings of equal length: a dict, so the last
\* occurrence of a repeated source character decides its image
maketrans(x, y) == [c \in Range(x) |-> y[LastIndexOf(x, c)]]

\* str.translate(table)
translate(text, table) ==
    [i \in DOMAIN text |-> IF text[i] \in DOMAIN table THEN table[text[i]] ELSE text[i]]

\* "no Key object": the value of a name whose constructor raised, or Breaker.key = None
NoKey(exc, msg) ==
    [exc |-> exc, msg |-> msg, alphabet |-> <<>>, key |-> <<>>,
     encode |-> NoTable, decode |-> NoTable]

\* Key.__init__
KeyInit(k, alphabet) ==
    LET ra == check_alphabet(alphabet)
    IN  IF ra.exc # "" THEN NoKey(ra.exc, ra.msg)
        ELSE LET rk == check_key(k, ra.val)
             IN  IF rk.exc # "" THEN NoKey(rk.exc, rk.msg)
                 ELSE LET camel_key == _upper(k) \o lower(k)
                          camel_alphabet == _upper(alphabet) \o lower(alphabet)
                      IN  [exc |-> "", msg |-> "", alphabet |-> ra.val, key |-> rk.val,
                           encode |-> maketrans(camel_alphabet, camel_key),
                           decode |-> maketrans(camel_key, camel_alphabet)]

IsKey(obj) == obj.exc = ""

\* Key.decode
decode(obj, text) == translate(text, obj.decode)

\* Key.encode
encode(obj, text) == translate(text, obj.encode)

\* iterating a file handle: the text cut after every newline (code point 10)
RECURSIVE FileLines(_)
FileLines(text) ==
    IF text = <<>> THEN <<>>
    ELSE IF \E i \in DOMAIN text : text[i] = 10
    THEN LET n == CHOOSE i \in DOMAIN text : text[i] = 10 /\ \A j \in 1..(i - 1) : text[j] # 10
         IN  <<SubSeq(text, 1, n)>> \o FileLines(SubSeq(text, n + 1, Len(text)))
    ELSE <<text>>

RECURSIVE WriteAll(_, _, _)
\* what the output handle holds after write() of each translated line
WriteAll(lines, table, written) ==
    IF lines = <<>> THEN written
    ELSE WriteAll(Tail(lines), table, written \o translate(Head(lines), table))

\* Key.decode_file
decode_file(obj, text) == WriteAll(FileLines(text), obj.decode, <<>>)

\* Key.encode_file
encode_file(obj, text) == WriteAll(FileLines(text), obj.encode, <<>>)

-----------------------------------------------------------------------------
(* command.py *)

\* a removal that leaves the list as it is
RemoveNothing(lst, c) == lst

\* list.remove(c) for a list that holds c: the list without its first c
Remove(lst, c) ==
    LET i == CHOOSE k \in DOMAIN lst : lst[k] = c /\ \A j \in 1..(k - 1) : lst[j] # c
    IN  SubSeq(lst, 1, i - 1) \o SubSeq(lst, i + 1, Len(lst))

\* build_key_from_keyword lines 60-63: the loop over the keyword's characters
RECURSIVE KeywordLoop(_, _, _)
KeywordLoop(chars, kw_list, alpha_list) ==
    IF chars = <<>> THEN Returned(kw_list \o alpha_list)
    ELSE LET char == Head(chars)
         IN  IF char \in Range(kw_list)
             THEN KeywordLoop(Tail(chars), kw_list, alpha_list)
             ELSE IF char \notin Range(alpha_list)
             THEN Raised("ValueError", "list.remove(x): x not in list")
             ELSE KeywordLoop(Tail(chars), Append(kw_list, char), Remove(alpha_list, char))

\* build_key_from_keyword(args) with args.alphabet and args.keyword
build_key_from_keyword(alphabet, keyword) ==
    KeywordLoop(lower(keyword), <<>>, lower(alphabet))

-----------------------------------------------------------------------------
(* breaker.py: data *)

\* Breaker._alphabet of the loaded model: the first AlphaLen lower-case letters
ModelAlphabet == [i \in 1..AlphaLen |-> 96 + i]

\* Breaker._alphabet_len
key_len == Len(ModelAlphabet)

\* the packed code of four symbols, five bits each, most significant first
Pack(s0, s1, s2, s3) == ((s0 * 32 + s1) * 32 + s2) * 32 + s3

\* quadgrams[code] of a loaded table (entries not listed are 0)
Quadgram(table, code) == IF code \in DOMAIN table THEN table[code] ELSE 0

\* The score tables a Breaker is loaded with: non-negative integers, as
\* generate_quadgrams writes them.  Listed by their non-zero entries.
TableTwoPeaks == (Pack(0, 1, 2, 0) :> 5) @@ (Pack(1, 2, 0, 1) :> 3)
TableRepeat == (Pack(0, 0, 0, 0) :> 7) @@ (Pack(0, 1, 2, 0) :> 2) @@ (Pack(1, 0, 2, 1) :> 2)
QuadgramTables == {TableTwoPeaks, TableRepeat}

\* Ciphertexts handed to break_cipher
CipherTexts ==
    { <<>>,                          \* ""
      <<97, 45, 66, 49, 99>>,        \* "a-B1c"   three qualifying symbols
      <<97, 66, 45, 99, 97>>,        \* "aB-ca"   four qualifying symbols
      <<97, 97, 97, 97>>,            \* "aaaa"
      <<97, 98, 99, 97, 98>> }       \* "abcab"   five qualifying symbols

\* Argument values tried for max_rounds and consolidate
RoundValues == (0..MaxRoundsTried) \cup {MaxRoundsLimit + 1}
ConsolidateValues == (0..MaxConsolidateTried) \cup {ConsolidateLimit + 1}

\* every arrangement random.shuffle can leave in a list of n indices
Shuffles(n) ==
    {f \in [0..(n - 1) -> 0..(n - 1)] : \A i, j \in 0..(n - 1) : f[i] = f[j] => i = j}

-----------------------------------------------------------------------------
(* breaker.py: functions *)

\* what a call gave: its return value or exception, the number of characters
\* it consumed from its input handle, and what it wrote to its output handle
FnResult(r, read, written) ==
    [exc |-> r.exc, msg |-> r.msg, val |-> r.val, read |-> read, written |-> written]

\* Breaker._text_iterator: the alphabet indices of the characters of txt that
\* belong to the alphabet, in order
RECURSIVE _text_iterator(_, _)
_text_iterator(txt, alphabet) ==
    IF txt = <<>> THEN <<>>
    ELSE LET char == LowerChar(Head(txt))
             trans == lower(alphabet)
             rest == _text_iterator(Tail(txt), alphabet)
         IN  IF char \in Range(trans)
             THEN <<LastIndexOf(trans, char) - 1>> \o rest
             ELSE rest

\* the rolling code with a 16-bit mask
RollWideMask(quadgram_val, numerical_char) == (quadgram_val % 65536) * 32 + numerical_char

\* the rolling code without the 15-bit mask
RollNoMask(quadgram_val, numerical_char) == quadgram_val * 32 + numerical_char

\* the rolling code after one more symbol
Roll(quadgram_val, numerical_char) == (quadgram_val % 32768) * 32 + numerical_char

\* the summing loop shared by _calc_fitness (lines 279-282) and the rescoring
\* of _hill_climbing (lines 367-369), over the symbols of list l from position pos
RECURSIVE SumWindows(_, _, _, _, _)
SumWindows(table, l, pos, quad_idx, acc) ==
    IF pos >= ListLen(l) THEN acc
    ELSE LET q == Roll(quad_idx, l[pos])
         IN  SumWindows(table, l, pos + 1, q, acc + Quadgram(table, q))

\* _hill_climbing lines 365-369: full rescoring of the plaintext buffer
Rescore(table, pt) ==
    SumWindows(table, pt, 3, pt[0] * 1024 + pt[1] * 32 + pt[2], 0)

\* _calc_fitness without the test for zero quadgrams
_calc_fitness_unchecked(table, symbols) ==
    IF Len(symbols) < 3
    THEN Raised("ValueError", "More than three characters from the given alphabet are required")
    ELSE LET l == ToList(symbols)
             first == (l[0] * 32 + l[1]) * 32 + l[2]
         IN  Returned(<<SumWindows(table, l, 3, first, 0), Len(symbols) - 3>>)

\* Breaker._calc_fitness on the symbols an iterator yields; the result is the
\* pair <<fitness, nbr_quadgrams>>, standing for fitness / nbr_quadgrams / 10
_calc_fitness(table, symbols) ==
    IF Len(symbols) < 3
    THEN Raised("ValueError", "More than three characters from the given alphabet are required")
    ELSE LET l == ToList(symbols)
             first == (l[0] * 32 + l[1]) * 32 + l[2]
             nbr_quadgrams == Len(symbols) - 3
         IN  IF nbr_quadgrams = 0
             THEN Raised("ValueError", "More than three characters from the given alphabet are required")
             ELSE Returned(<<SumWindows(table, l, 3, first, 0), nbr_quadgrams>>)

\* Breaker._file_iterator: the same, line by line over the contents of a file
RECURSIVE IterLines(_, _)
IterLines(lines, alphabet) ==
    IF lines = <<>> THEN <<>>
    ELSE _text_iterator(Head(lines), alphabet) \o IterLines(Tail(lines), alphabet)

\* an iterator that yields every symbol twice
_file_iterator_twice(contents, alphabet) ==
    LET once == IterLines(FileLines(contents), alphabet)
    IN  [i \in 1..(2 * Len(once)) |-> once[(i + 1) \div 2]]

_file_iterator(contents, alphabet) == IterLines(FileLines(contents), alphabet)

\* Breaker.calc_fitness_file
calc_fitness_file(table, contents) ==
    _calc_fitness(table, _file_iterator(contents, ModelAlphabet))

\* Breaker.calc_fitness
calc_fitness(table, txt) == _calc_fitness(table, _text_iterator(txt, ModelAlphabet))

\* len(quadgrams), generate_quadgrams line 205
TableSize == 32 * 32 * 32 * 32

\* generate_quadgrams lines 206-208: the raw counts after the symbols of list l
\* from position pos on (codes never incremented are absent and hold 0)
RECURSIVE CountWindows(_, _, _, _)
CountWindows(l, pos, quadgram_val, counts) ==
    IF pos >= ListLen(l) THEN counts
    ELSE LET q == Roll(quadgram_val, l[pos])
         IN  CountWindows(l, pos + 1, q,
                 [c \in DOMAIN counts \cup {q} |->
                     (IF c \in DOMAIN counts THEN counts[c] ELSE 0) + (IF c = q THEN 1 ELSE 0)])

RECURSIVE SumOver(_, _)
\* the sum of f over the set of arguments S
SumOver(f, S) ==
    IF S = {} THEN 0
    ELSE LET x == CHOOSE y \in S : TRUE IN f[x] + SumOver(f, S \ {x})

\* generate_quadgrams lines 211-214
QuadgramMin(counts) ==
    LET vals == {QuadgramMinStart} \cup {counts[c] : c \in {d \in DOMAIN counts : counts[d] # 0}}
    IN  CHOOSE m \in vals : \A v \in vals : m <= v

\* math.log in millionths, for the arguments that occur
LnMicro(n) ==
    CASE n = 1 -> 0
      [] n = 2 -> 693147
      [] n = 3 -> 1098612
      [] n = 4 -> 1386294
      [] n = 5 -> 1609438
      [] n = 6 -> 1791759
      [] n = 7 -> 1945910
      [] n = 8 -> 2079442
      [] n = 9 -> 2197225
      [] n = 10 -> 2302585
      [] n = QuadgramMinStart -> 16118096

\* one decimal digit more of a quotient given as <<integer part, remainder>>
Times10(qr, den) == <<qr[1] * 10 + (qr[2] * 10) \div den, (qr[2] * 10) % den>>

\* round(num / den * 1000) for positive integers, by long division
Round1000(num, den) ==
    LET whole == <<num \div den, num % den>>
        milli == Times10(Times10(Times10(whole, den), den), den)
    IN  IF 2 * milli[2] >= den THEN milli[1] + 1 ELSE milli[1]

\* generate_quadgrams lines 215-221: new_val of a counted entry, in millionths
\* (log(val / sum) - log(min / 10 / sum))
NewVal(val, min) == LnMicro(val) - LnMicro(min) + LnMicro(10)

\* generate_quadgrams lines 217-226: the normalised integer entries
Normalised(counts) ==
    LET quadgram_sum == SumOver(counts, DOMAIN counts)
        quadgram_min == QuadgramMin(counts)
        \* norm * quadgram_sum, in millionths
        norm_sum == SumOver([c \in DOMAIN counts |-> counts[c] * NewVal(counts[c], quadgram_min)],
                            DOMAIN counts)
    IN  [c \in DOMAIN counts |->
            Round1000(quadgram_sum * NewVal(counts[c], quadgram_min), norm_sum)]

\* generate_quadgrams lines 233-236: the four characters of a packed code
CodeChars(alphabet, index) ==
    << alphabet[((index \div (32 * 32 * 32)) % 32) + 1],
       alphabet[((index \div (32 * 32)) % 32) + 1],
       alphabet[((index \div 32) % 32) + 1],
       alphabet[(index % 32) + 1] >>

\* the length check off by one
TooManySymbolsOffByOne(alphabet) == Len(alphabet) > MaxAlphabetLen + 1

\* generate_quadgrams line 199
TooManySymbols(alphabet) == Len(alphabet) > MaxAlphabetLen

\* Breaker.generate_quadgrams(corpus_fh, quadgram_fh, alphabet): the exception
\* or None, the number of corpus characters consumed, and what was written
generate_quadgrams(corpus, alphabet_arg) ==
    LET ra == check_alphabet(alphabet_arg)
    IN  IF ra.exc # "" THEN FnResult(ra, 0, <<>>)
        ELSE IF TooManySymbols(ra.val)
        THEN FnResult(Raised("AlphabetInvalid",
                             "Alphabet must have less or equal than 32 characters"), 0, <<>>)
        ELSE LET symbols == _file_iterator(corpus, ra.val)
             IN  IF Len(symbols) < 3
                 THEN FnResult(Raised("StopIteration", ""), Len(corpus), <<>>)
                 ELSE LET l == ToList(symbols)
                          counts == CountWindows(l, 3, (l[0] * 32 + l[1]) * 32 + l[2], <<>>)
                          quadgram_sum == SumOver(counts, DOMAIN counts)
                      IN  IF quadgram_sum = 0
                          THEN FnResult(Raised("ZeroDivisionError", "float division by zero"),
                                        Len(corpus), <<>>)
                          ELSE LET table == Normalised(counts)
                                   max_val == CHOOSE v \in Range(table) :
                                                  \A w \in Range(table) : w <= v
                                   max_idx == CHOOSE c \in DOMAIN table :
                                                  /\ table[c] = max_val
                                                  /\ \A d \in DOMAIN table :
                                                        table[d] = max_val => c <= d
                               IN  FnResult(Returned(<<>>), Len(corpus),
                                     [alphabet |-> ra.val,
                                      nbr_quadgrams |-> quadgram_sum,
                                      most_frequent_quadgram |-> CodeChars(ra.val, max_idx),
                                      max_fitness |-> max_val,
                                      average_fitness |->
                                          <<SumOver(table, DOMAIN table),
                                            Len(ra.val) * Len(ra.val) * Len(ra.val) * Len(ra.val)>>,
                                      quadgrams |-> [len |-> TableSize, at |-> table]])

\* equality of two results fitness / count / 10
SameFitness(f, g) == f[1] * g[2] = g[1] * f[2]

\* plaintext[idx] = value for every idx of the list positions
SetAll(pt, positions, value) ==
    [pos \in DOMAIN pt |-> IF pos \in Range(positions) THEN value ELSE pt[pos]]

\* position lists that hold only the first position of each symbol
CharPositionsFirstOnly(cb) ==
    [idx \in 0..(Len(ModelAlphabet) - 1) |->
        LET all == SelectSeq([i \in 1..ListLen(cb) |-> i - 1], LAMBDA i : cb[i] = idx)
        IN  IF all = <<>> THEN <<>> ELSE <<Head(all)>>]

\* break_cipher lines 404-406
CharPositions(cb) ==
    [idx \in 0..(Len(ModelAlphabet) - 1) |->
        SelectSeq([i \in 1..ListLen(cb) |-> i - 1], LAMBDA i : cb[i] = idx)]

\* _hill_climbing line 348
InversePlaintext(k, cb) == [pos \in DOMAIN cb |-> ListIndex(k, cb[pos])]

\* break_cipher line 424
KeyString(k) == [i \in 1..ListLen(k) |-> ModelAlphabet[k[i - 1] + 1]]

-----------------------------------------------------------------------------
(* Breaker object: state after construction, and break_cipher step by step *)

NoOutcome ==
    [kind |-> "none", msg |-> "", plaintext |-> <<>>, key |-> <<>>, alphabet |-> <<>>,
     fitness |-> <<0, 1>>, nbr_keys |-> 0, nbr_rounds |-> 0]

\* what has happened so far in the current call
NoHist(before) ==
    [key_before |-> before,   \* Breaker.key when the call began
     projected |-> FALSE,     \* the ciphertext has been projected (line 398)
     shuffles |-> 0,          \* calls of random.shuffle
     n |-> 0,                 \* hill climbs that have returned
     max |-> -1,              \* largest score a hill climb returned (-1: none yet)
     first |-> <<>>,          \* final key of the earliest climb that returned max
     hits |-> 0,              \* climbs that returned max
     sum_keys |-> 0,          \* sum of the counts the climbs returned
     passes |-> 0,            \* passes begun by the climb in progress
     accepted |-> 0,          \* swaps committed in the pass in progress
     tried |-> {},            \* pairs tried in the pass in progress
     broke |-> FALSE]         \* the break of line 423 was taken

CallLocalsReset ==
    /\ ciphertext' = <<>>
    /\ max_rounds' = 0
    /\ consolidate' = 0
    /\ cipher_bin' = <<>>
    /\ char_positions' = <<>>
    /\ local_maximum' = 0
    /\ local_maximum_hit' = 0
    /\ key' = <<>>
    /\ best_key' = <<>>
    /\ round_cntr' = -1
    /\ next_round' = 0
    /\ nbr_keys' = 0

ClimbLocalsReset ==
    /\ plaintext' = <<>>
    /\ hc_nbr_keys' = 0
    /\ max_fitness' = 0
    /\ better_key' = FALSE
    /\ idx1' = 0
    /\ idx2' = 0

\* Breaker.__init__: a table is loaded, key is None
BreakerInit ==
    /\ pc = "idle"
    /\ quadgrams \in QuadgramTables
    /\ self_key = NoKey("None", "")
    /\ ciphertext = <<>>
    /\ max_rounds = 0
    /\ consolidate = 0
    /\ cipher_bin = <<>>
    /\ char_positions = <<>>
    /\ local_maximum = 0
    /\ local_maximum_hit = 0
    /\ key = <<>>
    /\ best_key = <<>>
    /\ round_cntr = -1
    /\ next_round = 0
    /\ nbr_keys = 0
    /\ plaintext = <<>>
    /\ hc_nbr_keys = 0
    /\ max_fitness = 0
    /\ better_key = FALSE
    /\ idx1 = 0
    /\ idx2 = 0
    /\ outcome = NoOutcome
    /\ hist = NoHist(NoKey("None", ""))

Error(msg) == [NoOutcome EXCEPT !.kind = "error", !.msg = msg]

\* the range checks with the check of consolidate left out
RangeErrorRoundsOnly(mr, co) ==
    IF ~(1 <= mr /\ mr <= MaxRoundsLimit)
    THEN "maximum number of rounds not in the valid range 1..10000"
    ELSE ""

\* break_cipher lines 392-395: the first range check that fails, "" if none does
RangeError(mr, co) ==
    IF ~(1 <= mr /\ mr <= MaxRoundsLimit)
    THEN "maximum number of rounds not in the valid range 1..10000"
    ELSE IF ~(1 <= co /\ co <= ConsolidateLimit)
    THEN "consolidate parameter out of valid range 1..30"
    ELSE ""

\* the length check off by one
TooShortOffByOne(cb) == ListLen(cb) <= 4

\* break_cipher line 401
TooShort(cb) == ListLen(cb) < 4

\* break_cipher lines 392-411: the call up to the first round
BreakCipher(ct, mr, co) ==
    /\ pc = "idle"
    /\ ciphertext' = ct
    /\ max_rounds' = mr
    /\ consolidate' = co
    /\ UNCHANGED <<quadgrams, self_key, round_cntr, next_round, plaintext, hc_nbr_keys,
                   max_fitness, better_key, idx1, idx2>>
    /\ IF RangeError(mr, co) # ""
       THEN /\ pc' = "error"
            /\ outcome' = Error(RangeError(mr, co))
            /\ hist' = NoHist(self_key)
            /\ UNCHANGED <<cipher_bin, char_positions, local_maximum, local_maximum_hit,
                           key, best_key, nbr_keys>>
       ELSE LET cb == ToList(_text_iterator(ct, ModelAlphabet))
            IN  /\ cipher_bin' = cb
                /\ nbr_keys' = 0
                /\ hist' = [NoHist(self_key) EXCEPT !.projected = TRUE]
                /\ IF TooShort(cb)
                   THEN /\ pc' = "error"
                        /\ outcome' = Error("ciphertext is too short")
                        /\ UNCHANGED <<char_positions, local_maximum, local_maximum_hit,
                                       key, best_key>>
                   ELSE /\ pc' = "for"
                        /\ outcome' = NoOutcome
                        /\ char_positions' = CharPositions(cb)
                        /\ local_maximum' = 0
                        /\ local_maximum_hit' = 1
                        /\ key' = [idx \in 0..(key_len - 1) |-> idx]
                        /\ best_key' = [idx \in 0..(key_len - 1) |-> idx]

\* a loop that runs one round too many
MoreRoundsOffByOne(nxt, mr) == nxt <= mr

\* break_cipher line 412: range(max_rounds) has another value
MoreRounds(nxt, mr) == nxt < mr

\* a commit that writes only the first of the two positions
SwappedOneSide(k, i1, i2, ch1, ch2) == [k EXCEPT ![i1] = ch2]

\* _hill_climbing lines 373-374: key[idx1] = ch2; key[idx2] = ch1
Swapped(k, i1, i2, ch1, ch2) == [k EXCEPT ![i1] = ch2, ![i2] = ch1]

\* a remembered key that is the working list itself
AliasOfKey(copy, working) == working

\* break_cipher lines 411 and 419, best_key = key.copy(): the remembered key
\* is a list of its own, so it reads the same after the working key changed
CopyOfKey(copy, working) == copy

\* a plaintext buffer that is the cipher_bin list itself
AliasOfBuffer(source, buffer) == buffer

\* _hill_climbing line 348: plaintext is a new list built from cipher_bin, so
\* cipher_bin reads the same after the buffer changed
SourceOfBuffer(source, buffer) == source

\* break_cipher lines 412-414 and _hill_climbing lines 348-353: the next value
\* of range(max_rounds), the shuffle, and the entry into the hill climb
RoundStart ==
    /\ pc = "for"
    /\ MoreRounds(next_round, max_rounds)
    /\ round_cntr' = next_round
    /\ next_round' = next_round + 1
    /\ \E shuffled \in Shuffles(ListLen(key)) :
          /\ key' = shuffled
          /\ plaintext' = InversePlaintext(shuffled, cipher_bin)
    /\ best_key' = CopyOfKey(best_key, key')
    /\ cipher_bin' = SourceOfBuffer(cipher_bin, plaintext')
    /\ hc_nbr_keys' = 0
    /\ max_fitness' = 0
    /\ better_key' = TRUE
    /\ hist' = [hist EXCEPT !.shuffles = @ + 1, !.passes = 0, !.accepted = 0, !.tried = {}]
    /\ pc' = "while"
    /\ UNCHANGED <<quadgrams, self_key, ciphertext, max_rounds, consolidate,
                   char_positions, local_maximum, local_maximum_hit, nbr_keys,
                   idx1, idx2, outcome, kargs, kobj, ktext, kout, fcall, fret>>

\* _hill_climbing lines 354-357: the while test succeeds and a pass begins
PassStart ==
    /\ pc = "while"
    /\ better_key
    /\ better_key' = FALSE
    /\ idx1' = 0
    /\ idx2' = 1
    /\ pc' = IF 0 < key_len - 1 THEN "trial" ELSE "while"
    /\ hist' = [hist EXCEPT !.passes = @ + 1, !.accepted = 0, !.tried = {}]
    /\ UNCHANGED <<quadgrams, self_key, ciphertext, max_rounds, consolidate, cipher_bin,
                   char_positions, local_maximum, local_maximum_hit, key, best_key,
                   round_cntr, next_round, nbr_keys, plaintext, hc_nbr_keys, max_fitness,
                   outcome, kargs, kobj, ktext, kout, fcall, fret>>

\* an acceptance that also takes a trial of equal score
AcceptsTies(tmp_fitness, best) == tmp_fitness >= best

\* an acceptance that takes only a gain of more than two
AcceptsBigGains(tmp_fitness, best) == tmp_fitness > best + 2

\* _hill_climbing line 370
Accepts(tmp_fitness, best) == tmp_fitness > best

\* a revert that runs only the first of the two loops
RevertFirstLoop(pt, positions1, positions2, i1, i2) == SetAll(pt, positions1, i1)

\* _hill_climbing lines 375-379: the two loops of the else branch
Revert(pt, positions1, positions2, i1, i2) ==
    SetAll(SetAll(pt, positions1, i1), positions2, i2)

\* a count of the accepted trials only
CountedIfAccepted(count, accepted) == IF accepted THEN count + 1 ELSE count

\* _hill_climbing line 364: the count after one more trial, accepted or not
Counted(count, accepted) == count + 1

\* _hill_climbing lines 358-379: one pair trial, then the step of the two for loops
PairTrial ==
    /\ pc = "trial"
    /\ LET ch1 == key[idx1]
           ch2 == key[idx2]
           flipped == SetAll(SetAll(plaintext, char_positions[ch1], idx2),
                             char_positions[ch2], idx1)
           tmp_fitness == Rescore(quadgrams, flipped)
       IN  /\ hc_nbr_keys' = Counted(hc_nbr_keys, Accepts(tmp_fitness, max_fitness))
           /\ IF Accepts(tmp_fitness, max_fitness)
              THEN /\ max_fitness' = tmp_fitness
                   /\ better_key' = TRUE
                   /\ key' = Swapped(key, idx1, idx2, ch1, ch2)
                   /\ plaintext' = flipped
                   /\ hist' = [hist EXCEPT !.tried = @ \cup {<<idx1, idx2>>},
                                           !.accepted = @ + 1]
              ELSE /\ plaintext' = Revert(flipped, char_positions[ch1], char_positions[ch2],
                                          idx1, idx2)
                   /\ hist' = [hist EXCEPT !.tried = @ \cup {<<idx1, idx2>>}]
                   /\ UNCHANGED <<max_fitness, better_key, key>>
    /\ best_key' = CopyOfKey(best_key, key')
    /\ cipher_bin' = SourceOfBuffer(cipher_bin, plaintext')
    /\ IF idx2 + 1 < key_len
       THEN /\ idx2' = idx2 + 1
            /\ UNCHANGED <<idx1, pc>>
       ELSE IF idx1 + 1 < key_len - 1
       THEN /\ idx1' = idx1 + 1
            /\ idx2' = idx1 + 2
            /\ UNCHANGED pc
       ELSE /\ pc' = "while"
            /\ UNCHANGED <<idx1, idx2>>
    /\ UNCHANGED <<quadgrams, self_key, ciphertext, max_rounds, consolidate,
                   char_positions, local_maximum, local_maximum_hit,
                   round_cntr, next_round, nbr_keys, outcome, kargs, kobj, ktext, kout, fcall, fret>>

\* the history after a climb returned (fitness, count) with the key as it stands
Climbed(h, fitness, count, k) ==
    [h EXCEPT !.n = @ + 1,
              !.sum_keys = @ + count,
              !.max = IF fitness > @ THEN fitness ELSE @,
              !.first = IF fitness > h.max THEN k ELSE @,
              !.hits = IF fitness > h.max THEN 1 ELSE IF fitness = h.max THEN @ + 1 ELSE @]

\* _hill_climbing lines 354 and 380: the while test fails and the climb returns
ClimbReturn ==
    /\ pc = "while"
    /\ ~better_key
    /\ pc' = "climbed"
    /\ hist' = Climbed(hist, max_fitness, hc_nbr_keys, key)
    /\ UNCHANGED <<quadgrams, self_key, ciphertext, max_rounds, consolidate, cipher_bin,
                   char_positions, local_maximum, local_maximum_hit, key, best_key,
                   round_cntr, next_round, nbr_keys, plaintext, hc_nbr_keys, max_fitness,
                   better_key, idx1, idx2, outcome, kargs, kobj, ktext, kout, fcall, fret>>

\* break_cipher line 422
Consolidated(hit, co) == hit = co

\* a comparison that takes any different score as the new best
IsNewBestOrLower(fitness, best) == fitness # best

\* break_cipher line 416
IsNewBest(fitness, best) == fitness > best

\* break_cipher lines 414-423: the climb's result is taken and compared
RoundEnd ==
    /\ pc = "climbed"
    /\ nbr_keys' = nbr_keys + hc_nbr_keys
    /\ IF IsNewBest(max_fitness, local_maximum)
       THEN /\ local_maximum' = max_fitness
            /\ local_maximum_hit' = 1
            /\ best_key' = key
            /\ pc' = "for"
            /\ UNCHANGED hist
       ELSE IF max_fitness = local_maximum
       THEN /\ local_maximum_hit' = local_maximum_hit + 1
            /\ IF Consolidated(local_maximum_hit + 1, consolidate)
               THEN pc' = "finish" /\ hist' = [hist EXCEPT !.broke = TRUE]
               ELSE pc' = "for" /\ UNCHANGED hist
            /\ UNCHANGED <<local_maximum, best_key>>
       ELSE /\ pc' = "for"
            /\ UNCHANGED <<local_maximum, local_maximum_hit, best_key, hist>>
    /\ UNCHANGED <<quadgrams, self_key, ciphertext, max_rounds, consolidate, cipher_bin,
                   char_positions, key, round_cntr, next_round, plaintext, hc_nbr_keys,
                   max_fitness, better_key, idx1, idx2, outcome, kargs, kobj, ktext, kout, fcall, fret>>

\* BreakerResult.nbr_rounds, line 434
NbrRounds(cntr) == cntr

\* BreakerResult.nbr_keys, line 433
NbrKeys(total) == total

\* break_cipher lines 424-437, reached by the break or when range() is exhausted
Finish ==
    /\ \/ pc = "finish"
       \/ pc = "for" /\ ~MoreRounds(next_round, max_rounds)
    /\ LET key_str == KeyString(best_key)
           obj == KeyInit(key_str, ModelAlphabet)
       IN  /\ self_key' = obj
           /\ outcome' = [kind |-> "result", msg |-> "",
                          plaintext |-> decode(obj, ciphertext),
                          key |-> key_str,
                          alphabet |-> ModelAlphabet,
                          fitness |-> <<local_maximum, ListLen(cipher_bin) - 3>>,
                          nbr_keys |-> NbrKeys(nbr_keys),
                          nbr_rounds |-> NbrRounds(round_cntr)]
    /\ pc' = "done"
    /\ UNCHANGED <<quadgrams, ciphertext, max_rounds, consolidate, cipher_bin,
                   char_positions, local_maximum, local_maximum_hit, key, best_key,
                   round_cntr, next_round, nbr_keys, plaintext, hc_nbr_keys, max_fitness,
                   better_key, idx1, idx2, hist, kargs, kobj, ktext, kout,
                   fcall, fret>>

\* the caller has the result or the exception; the object is ready for another call
Return ==
    /\ pc \in {"done", "error"}
    /\ pc' = "idle"
    /\ CallLocalsReset
    /\ ClimbLocalsReset
    /\ outcome' = NoOutcome
    /\ hist' = NoHist(self_key)
    /\ UNCHANGED <<quadgrams, self_key, kargs, kobj, ktext, kout, fcall, fret>>

Call ==
    /\ \E ct \in CipherTexts, mr \in RoundValues, co \in ConsolidateValues :
          BreakCipher(ct, mr, co)
    /\ UNCHANGED keyVars
    /\ UNCHANGED fnVars

KeyIdle ==
    /\ kargs = [key |-> <<>>, alphabet |-> <<>>]
    /\ kobj = NoKey("None", "")
    /\ ktext = <<>>
    /\ kout = [op |-> "none", via |-> "text", back |-> FALSE, val |-> <<>>]

NoCall == [op |-> "none", text |-> <<>>, alphabet |-> <<>>]

NoReturn == [exc |-> "", msg |-> "", val |-> <<>>, read |-> 0, written |-> <<>>]

FnIdle ==
    /\ fcall = NoCall
    /\ fret = NoReturn

Init == BreakerInit /\ KeyIdle /\ FnIdle

Next ==
    \/ Call
    \/ RoundStart
    \/ PassStart
    \/ PairTrial
    \/ ClimbReturn
    \/ RoundEnd
    \/ Finish
    \/ Return

Spec == Init /\ [][Next]_vars

\* a call in progress keeps executing: the code is single-threaded and synchronous
Step ==
    \/ RoundStart
    \/ PassStart
    \/ PairTrial
    \/ ClimbReturn
    \/ RoundEnd
    \/ Finish

\* one call of break_cipher on a freshly constructed Breaker
NextOnce ==
    \/ Call
    \/ Step

FairOnce == Init /\ [][NextOnce]_vars /\ WF_vars(Step)

-----------------------------------------------------------------------------
(* Key objects: construction, encode / decode and their file variants *)

\* characters of the keys and alphabets tried: a, b, A, 1, sharp s
KeyChars == {97, 98, 65, 49, 223}

\* characters of the texts tried: a, A, b, 1, newline
TextChars == {97, 65, 98, 49, 10}

StringsUpTo(chars, n) == UNION {[1..m -> chars] : m \in 0..n}

\* the four translations of a Key object
Xcode(obj, dir, via, text) ==
    IF dir = "encode"
    THEN IF via = "file" THEN encode_file(obj, text) ELSE encode(obj, text)
    ELSE IF via = "file" THEN decode_file(obj, text) ELSE decode(obj, text)

Opposite(dir) == IF dir = "encode" THEN "decode" ELSE "encode"

\* Key(k, alphabet=a)
KeyConstruct ==
    /\ kobj = NoKey("None", "")
    /\ \E k \in StringsUpTo(KeyChars, MaxKeyLen), a \in StringsUpTo(KeyChars, MaxKeyLen) :
          /\ kargs' = [key |-> k, alphabet |-> a]
          /\ kobj' = KeyInit(k, a)
    /\ ktext' = <<>>
    /\ kout' = [op |-> "none", via |-> "text", back |-> FALSE, val |-> <<>>]
    /\ UNCHANGED breakerVars
    /\ UNCHANGED fnVars

\* obj.encode(t), obj.decode(t), obj.encode_file(t), obj.decode_file(t)
KeyXcode ==
    /\ IsKey(kobj)
    /\ kout.op = "none"
    /\ \E t \in StringsUpTo(TextChars, MaxTextLen), dir \in {"encode", "decode"},
          via \in {"text", "file"} :
          /\ ktext' = t
          /\ kout' = [op |-> dir, via |-> via, back |-> FALSE, val |-> Xcode(kobj, dir, via, t)]
    /\ UNCHANGED <<kargs, kobj>>
    /\ UNCHANGED breakerVars
    /\ UNCHANGED fnVars

\* the opposite translation applied to the previous result
KeyXcodeBack ==
    /\ IsKey(kobj)
    /\ kout.op \in {"encode", "decode"}
    /\ ~kout.back
    /\ kout' = [kout EXCEPT !.back = TRUE,
                            !.val = Xcode(kobj, Opposite(kout.op), kout.via, kout.val)]
    /\ UNCHANGED <<kargs, kobj, ktext>>
    /\ UNCHANGED breakerVars
    /\ UNCHANGED fnVars

NextKey ==
    \/ KeyConstruct
    \/ KeyXcode
    \/ KeyXcodeBack

InitKey == Init /\ quadgrams = TableTwoPeaks

SpecKey == InitKey /\ [][NextKey]_vars

-----------------------------------------------------------------------------
(* Stand-alone calls: calc_fitness, calc_fitness_file *)

\* characters of the texts scored: a, B, c, -, newline
FitChars == {97, 66, 99, 45, 10}

\* breaker.calc_fitness(txt), breaker.calc_fitness_file(fh)
CalcFitness ==
    /\ fcall = NoCall
    /\ \E txt \in StringsUpTo(FitChars, MaxFitLen), op \in {"calc_fitness", "calc_fitness_file"} :
          /\ fcall' = [op |-> op, text |-> txt, alphabet |-> ModelAlphabet]
          /\ fret' = IF op = "calc_fitness_file"
                     THEN FnResult(calc_fitness_file(quadgrams, txt), Len(txt), <<>>)
                     ELSE FnResult(calc_fitness(quadgrams, txt), 0, <<>>)
    /\ UNCHANGED breakerVars
    /\ UNCHANGED keyVars

\* characters of the corpora: a, A, b, newline
CorpusChars == {97, 65, 98, 10}

\* an alphabet of n distinct symbols: a, b, c, ...
LongAlphabet(n) == [i \in 1..n |-> 96 + i]

\* alphabets handed to generate_quadgrams: "", "a", "ab", "Ab", "ba", "abc",
\* "aA", "aba", and 31, 32 and 33 distinct symbols
GenAlphabets ==
    { <<>>, <<97>>, <<97, 98>>, <<65, 98>>, <<98, 97>>, <<97, 98, 99>>,
      <<97, 65>>, <<97, 98, 97>>,
      LongAlphabet(MaxAlphabetLen - 1), LongAlphabet(MaxAlphabetLen),
      LongAlphabet(MaxAlphabetLen + 1) }

\* Breaker.generate_quadgrams(corpus_fh, quadgram_fh, alphabet)
GenerateQuadgrams ==
    /\ fcall = NoCall
    /\ \E corpus \in StringsUpTo(CorpusChars, MaxCorpusLen), a \in GenAlphabets :
          /\ fcall' = [op |-> "generate_quadgrams", text |-> corpus, alphabet |-> a]
          /\ fret' = generate_quadgrams(corpus, a)
    /\ UNCHANGED breakerVars
    /\ UNCHANGED keyVars

\* characters of the keywords: a, b, B, c, d
KeywordChars == {97, 98, 66, 99, 100}

\* alphabets the keyword is applied to: "abc", "cAb", "abcd", "aA", "b1a"
KeywordAlphabets ==
    { <<97, 98, 99>>, <<99, 65, 98>>, <<97, 98, 99, 100>>, <<97, 65>>, <<98, 49, 97>> }

\* build_key_from_keyword(args)
BuildKeyFromKeyword ==
    /\ fcall = NoCall
    /\ \E kw \in StringsUpTo(KeywordChars, MaxKeywordLen), a \in KeywordAlphabets :
          /\ fcall' = [op |-> "build_key_from_keyword", text |-> kw, alphabet |-> a]
          /\ fret' = FnResult(build_key_from_keyword(a, kw), 0, <<>>)
    /\ UNCHANGED breakerVars
    /\ UNCHANGED keyVars

\* the symbol at 0-based position i of a corpus that repeats the symbols syms
PeriodicSymbol(syms, i) == syms[(i % Len(syms)) + 1]

\* generate_quadgrams lines 202-208 on a corpus that repeats the symbols syms
\* reps times: the window that starts at position j holds the same code as the
\* one that starts at j + Len(syms), so each code is counted once for every
\* start 0..total-4 of its residues
PeriodicCounts(syms, reps) ==
    LET p == Len(syms)
        total == p * reps
        code(j) == Roll(Roll(Roll(PeriodicSymbol(syms, j), PeriodicSymbol(syms, j + 1)),
                             PeriodicSymbol(syms, j + 2)),
                        PeriodicSymbol(syms, j + 3))
        starts(j) == IF j > total - 4 THEN 0 ELSE (total - 4 - j) \div p + 1
        codes == {code(j) : j \in {k \in 0..(p - 1) : starts(k) > 0}}
    IN  [c \in codes |->
            SumOver([j \in 0..(p - 1) |-> IF code(j) = c THEN starts(j) ELSE 0], 0..(p - 1))]

\* generate_quadgrams lines 198-215 on the corpus pattern * reps: the locals
\* quadgrams (the raw counts) and quadgram_min when the offset is computed
quadgram_min(pattern, reps, alphabet_arg) ==
    LET ra == check_alphabet(alphabet_arg)
        read == Len(pattern) * reps
    IN  IF ra.exc # "" THEN FnResult(ra, 0, <<>>)
        ELSE IF TooManySymbols(ra.val)
        THEN FnResult(Raised("AlphabetInvalid",
                             "Alphabet must have less or equal than 32 characters"), 0, <<>>)
        ELSE LET syms == _file_iterator(pattern, ra.val)
             IN  IF Len(syms) * reps < 3
                 THEN FnResult(Raised("StopIteration", ""), read, <<>>)
                 ELSE LET counts == PeriodicCounts(syms, reps)
                      IN  IF SumOver(counts, DOMAIN counts) = 0
                          THEN FnResult(Raised("ZeroDivisionError", "float division by zero"),
                                        read, <<>>)
                          ELSE FnResult(Returned(<<counts, QuadgramMin(counts)>>), read, <<>>)

\* the repeated patterns of the long corpora: "a", "aB", "aaaaab"
LongPatterns == {<<97>>, <<97, 66>>, <<97, 97, 97, 97, 97, 98>>}

\* how often a pattern is repeated: a few times, and about QuadgramMinStart times
LongReps ==
    (1..MaxSmallReps) \cup {QuadgramMinStart - 1, QuadgramMinStart, QuadgramMinStart + 4,
                            2 * QuadgramMinStart}

\* generate_quadgrams on a long corpus, up to the offset of line 215
QuadgramMinSearch ==
    /\ fcall = NoCall
    /\ \E pattern \in LongPatterns, reps \in LongReps :
          /\ fcall' = [op |-> "quadgram_min", text |-> pattern, alphabet |-> <<97, 98>>]
          /\ fret' = quadgram_min(pattern, reps, <<97, 98>>)
    /\ UNCHANGED breakerVars
    /\ UNCHANGED keyVars

NextFn ==
    \/ CalcFitness
    \/ GenerateQuadgrams
    \/ BuildKeyFromKeyword
    \/ QuadgramMinSearch

SpecFn == InitKey /\ [][NextFn]_vars

-----------------------------------------------------------------------------
(* Properties of break_cipher *)

\* a hill-climbing round is in progress
InRound == pc \in {"while", "trial"}

\* the alphabet-qualifying characters of a text, counted position by position
Qualifying(txt) ==
    Cardinality({i \in DOMAIN txt : LowerChar(txt[i]) \in Range(ModelAlphabet)})

\* pairs i < j of key positions
AllPairs == {<<i, j>> \in (0..(key_len - 1)) \X (0..(key_len - 1)) : i < j}

\* C1: consolidation stop.  Once the best-so-far score has been returned by
\* `consolidate` rounds (the round that set it and later rounds of equal
\* score) no further hill-climbing round runs.  (The code violates it.)
C1_ConsolidationStop ==
    InRound => hist.hits < consolidate

\* C2: best key returned.  The key of the result is the final key of the
\* earliest round whose score is the maximum over the rounds run.  (The code
\* violates it.)
C2_BestKeyReturned ==
    pc = "done" => outcome.key = KeyString(hist.first)

\* C3: nbr_rounds of the result is the number of hill-climbing rounds run.
\* (The code violates it.)
C3_NbrRoundsIsRoundsRun ==
    pc = "done" => outcome.nbr_rounds = hist.n

\* C4: fitness of the result is what calc_fitness returns for the plaintext
\* of the result.  (The code violates it.)
C4_FitnessOfPlaintext ==
    pc = "done" =>
        LET f == calc_fitness(quadgrams, outcome.plaintext)
        IN  f.exc = "" /\ SameFitness(outcome.fitness, f.val)

RangeMessages ==
    {"maximum number of rounds not in the valid range 1..10000",
     "consolidate parameter out of valid range 1..30"}

ValidArguments == max_rounds \in 1..MaxRoundsLimit /\ consolidate \in 1..ConsolidateLimit

\* a call of break_cipher has begun and has not yet returned or raised
Running == pc \in {"for", "while", "trial", "climbed", "finish"}

\* C5: for valid arguments and at least 4 qualifying symbols break_cipher
\* terminates, runs at least one and at most max_rounds rounds, and a round
\* begins only when the one before it has returned.
C5_RoundsBoundedAndTerminate ==
    /\ [](/\ Running => /\ hist.n <= max_rounds
                        /\ hist.shuffles = hist.n + (IF InRound THEN 1 ELSE 0)
          /\ pc = "done" => /\ 1 <= hist.n
                            /\ hist.n <= max_rounds
                            /\ hist.shuffles = hist.n)
    /\ (Running ~> (pc = "done" /\ outcome.kind = "result"))

\* the round budget was spent without the break
C5_Witness ==
    /\ pc = "done"
    /\ ~hist.broke
    /\ max_rounds >= 2
    /\ hist.n = max_rounds
    /\ Qualifying(ciphertext) >= 4

\* C6: arguments outside max_rounds in [1,10000] and consolidate in [1,30]
\* raise the range error before the ciphertext is projected, a key is
\* shuffled or a climb is run, and Breaker.key is as it was before the call.
C6_RangeErrorBeforeWork ==
    (pc # "idle" /\ ~ValidArguments) =>
        /\ pc = "error"
        /\ outcome.kind = "error"
        /\ outcome.msg \in RangeMessages
        /\ ~hist.projected
        /\ hist.shuffles = 0
        /\ hist.n = 0
        /\ self_key = hist.key_before

\* a range error raised by an object whose key an earlier call had set
C6_Witness ==
    /\ pc = "error"
    /\ max_rounds \in 1..MaxRoundsLimit
    /\ consolidate > ConsolidateLimit
    /\ outcome.msg = "consolidate parameter out of valid range 1..30"
    /\ IsKey(self_key)

\* C7: with valid arguments, fewer than 4 qualifying characters raise
\* "ciphertext is too short" with no climb run and Breaker.key unchanged;
\* exactly 4 qualifying characters give a result.
C7_TooShortOrResult ==
    /\ (pc # "idle" /\ ValidArguments /\ Qualifying(ciphertext) < 4) =>
            /\ pc = "error"
            /\ outcome.msg = "ciphertext is too short"
            /\ hist.shuffles = 0
            /\ hist.n = 0
            /\ self_key = hist.key_before
    /\ (pc # "idle" /\ ValidArguments /\ Qualifying(ciphertext) = 4) =>
            /\ pc # "error"
            /\ pc = "done" => outcome.kind = "result" /\ IsKey(self_key)

\* three qualifying characters among five, on an object that already holds a key
C7_Witness ==
    /\ pc = "error"
    /\ outcome.msg = "ciphertext is too short"
    /\ Qualifying(ciphertext) = 3
    /\ Len(ciphertext) > 4
    /\ IsKey(self_key)

\* C8: every pair trial counts as one key: within a pass each pair i < j is
\* tried once, a climb returns passes * n*(n-1)/2, and nbr_keys of the result
\* is the sum of the counts the climbs returned.
C8_KeyCounting ==
    /\ pc = "trial" =>
          /\ <<idx1, idx2>> \notin hist.tried
          /\ hc_nbr_keys = (hist.passes - 1) * Cardinality(AllPairs) + Cardinality(hist.tried)
    /\ (pc = "while" /\ hist.passes >= 1) => hist.tried = AllPairs
    /\ pc \in {"while", "climbed"} =>
          hc_nbr_keys * 2 = hist.passes * key_len * (key_len - 1)
    /\ pc \in {"for", "finish", "done"} => nbr_keys = hist.sum_keys
    /\ pc = "done" => outcome.nbr_keys = hist.sum_keys

\* a result after several rounds, one of them with more than one pass
C8_Witness ==
    /\ pc = "done"
    /\ hist.n >= 2
    /\ outcome.nbr_keys > hist.n * Cardinality(AllPairs)

-----------------------------------------------------------------------------
(* Properties of _hill_climbing *)

\* the ciphertext decoded with key k: each cipher symbol becomes its position in k
Decoded(k) == [pos \in DOMAIN cipher_bin |-> CHOOSE i \in DOMAIN k : k[i] = cipher_bin[pos]]

\* the full-text score of key k: the sum of the table entries of all windows
\* of four symbols of the decoded ciphertext
FullScore(k) ==
    LET d == Decoded(k)
        windows == 0..(ListLen(cipher_bin) - 4)
    IN  SumOver([w \in windows |->
                    Quadgram(quadgrams, Pack(d[w], d[w + 1], d[w + 2], d[w + 3]))],
                windows)

\* key k with the values at positions i and j exchanged
SwapAt(k, i, j) == [k EXCEPT ![i] = k[j], ![j] = k[i]]

\* the largest entry of the loaded table
MaxEntry ==
    CHOOSE v \in Range(quadgrams) \cup {0} : \A w \in Range(quadgrams) \cup {0} : w <= v

\* C16: local maximum at return.  _hill_climbing returns only after a full
\* pass over all pairs i < j in which no swap was accepted, and then no single
\* pairwise swap of the final key scores strictly more than the final key.
C16_LocalMaximumAtReturn ==
    pc = "climbed" =>
        /\ hist.passes >= 1
        /\ hist.tried = AllPairs
        /\ hist.accepted = 0
        /\ \A p \in AllPairs : FullScore(SwapAt(key, p[1], p[2])) <= FullScore(key)

\* a climb that improved the key in its first pass and returned after a second
C16_Witness ==
    /\ pc = "climbed"
    /\ hist.passes >= 2
    /\ FullScore(key) > 0
    /\ \E p \in AllPairs : FullScore(SwapAt(key, p[1], p[2])) < FullScore(key)

\* C17: the score _hill_climbing returns is the full-text score of the
\* ciphertext decoded with the key as it stands at return, whether or not a
\* swap was accepted.  (The code violates it.)
C17_ReturnedScoreIsKeyScore ==
    pc = "climbed" => max_fitness = FullScore(key)

\* C18: strict improvement.  Every committed swap gives a key whose full-text
\* score is strictly greater than that of the key held just before, the first
\* committed swap relative to the starting key included.  (The code violates it.)
C18_StrictImprovement ==
    [][(pc = "trial" /\ key' # key) => FullScore(key') > FullScore(key)]_vars

\* C19: every climb terminates: the recorded best score strictly increases at
\* each accepted swap and is bounded above, so a pass without an accepted swap
\* occurs and _hill_climbing returns.
C19_ClimbTerminates ==
    /\ [][(pc = "trial" /\ key' # key) => max_fitness' > max_fitness]_vars
    /\ [](InRound => max_fitness <= MaxEntry * (ListLen(cipher_bin) - 3))
    /\ (InRound ~> pc = "climbed")

\* a climb that returned after a pass with accepted swaps and a pass without
C19_Witness ==
    /\ pc = "climbed"
    /\ hist.passes >= 2
    /\ hist.accepted = 0
    /\ max_fitness > 0
    /\ ListLen(cipher_bin) >= 4

\* C20: a rejected pair trial (score less than or equal to the recorded best)
\* leaves the key unchanged and the plaintext buffer exactly as before the
\* trial; an accepted trial changes the key at positions i and j only, by
\* exchanging their values.
C20_RejectedTrialFrame ==
    [][pc = "trial" =>
          IF FullScore(SwapAt(key, idx1, idx2)) <= max_fitness
          THEN key' = key /\ plaintext' = plaintext
          ELSE /\ key' = SwapAt(key, idx1, idx2)
               /\ \A p \in DOMAIN key : p \notin {idx1, idx2} => key'[p] = key[p]
               /\ key' # key]_vars

\* a climb whose last pass rejected a trial that tied with the recorded best
C20_Witness ==
    /\ pc = "climbed"
    /\ hist.passes >= 2
    /\ max_fitness > 0
    /\ \E p \in AllPairs : FullScore(SwapAt(key, p[1], p[2])) = max_fitness

\* a 0-based list of n entries that holds every index 0..n-1
Permutation(k, n) == DOMAIN k = 0..(n - 1) /\ {k[i] : i \in DOMAIN k} = 0..(n - 1)

\* C21: from the first statement after the lists are built to the return, the
\* working key and the remembered best key are permutations of 0..n-1 (after
\* every shuffle and after every accepted or rejected pair trial), and the
\* key string of a result passes Key validation against the model alphabet
C21_KeyBijective ==
    /\ Running =>
          /\ Permutation(key, key_len)
          /\ Permutation(best_key, key_len)
    /\ pc = "done" /\ outcome.kind = "result" =>
          /\ Permutation(best_key, key_len)
          /\ check_alphabet(outcome.alphabet).exc = ""
          /\ check_key(outcome.key, outcome.alphabet).exc = ""
          /\ IsKey(self_key)
          /\ self_key.key = outcome.key

\* a climb has returned after committing a swap and rejecting another, and
\* its key differs from the remembered one
C21_Witness ==
    /\ pc = "climbed"
    /\ hist.n >= 1
    /\ max_fitness > 0
    /\ hc_nbr_keys >= 2
    /\ best_key # key

\* C22: at the start of a climb and after every completed pair trial, accepted
\* or rejected, the plaintext buffer holds at every position the index p with
\* key[p] = cipher_bin[pos]: updating the buffer through the position lists
\* gives what recomputing the inverse mapping of the whole ciphertext gives
C22_PlaintextMatchesKey ==
    pc \in {"while", "trial", "climbed"} =>
        /\ DOMAIN plaintext = DOMAIN cipher_bin
        /\ \A pos \in DOMAIN cipher_bin :
              /\ plaintext[pos] \in DOMAIN key
              /\ key[plaintext[pos]] = cipher_bin[pos]
        /\ \A idx \in DOMAIN char_positions :
              Range(char_positions[idx]) = {pos \in DOMAIN cipher_bin : cipher_bin[pos] = idx}

\* a climb over a ciphertext with a repeated symbol has committed a swap and
\* rejected another, and the buffer differs from the ciphertext
C22_Witness ==
    /\ pc = "climbed"
    /\ max_fitness > 0
    /\ hc_nbr_keys >= 2
    /\ \E i, j \in DOMAIN cipher_bin : i # j /\ cipher_bin[i] = cipher_bin[j]
    /\ plaintext # cipher_bin

\* a round has completed: its comparison of lines 416-423 has been made
RoundCompleted == pc \in {"for", "finish"} /\ hist.n >= 1

\* C23: after every completed round the hit counter is the number of
\* completed rounds whose hill-climb score equals the current best score (the
\* round that set the best counts as hit 1), and the best score is the largest
\* hill-climb score of the completed rounds
C23_HitCounter ==
    RoundCompleted =>
        /\ local_maximum_hit = hist.hits
        /\ local_maximum = hist.max

\* C24: a round whose hill-climb score is strictly less than the best score
\* so far leaves the best score, the hit counter and the remembered key as
\* they are and goes on to the next round without stopping; from round to
\* round of one call the best score never decreases
C24_LowerRoundFrame ==
    [][/\ pc = "climbed" /\ max_fitness < local_maximum =>
             /\ local_maximum' = local_maximum
             /\ local_maximum_hit' = local_maximum_hit
             /\ best_key' = best_key
             /\ pc' = "for"
             /\ hist'.broke = FALSE
       /\ Running => local_maximum' >= local_maximum]_vars

\* a round that scored less than an earlier one has been compared, with the
\* hit counter one short of the stop
C24_Witness ==
    /\ pc = "for"
    /\ hist.n >= 2
    /\ max_fitness < local_maximum
    /\ local_maximum_hit + 1 = consolidate

\* the comparison of line 416 is about to take a strictly higher round
NewBestStep == pc = "climbed" /\ max_fitness > local_maximum

\* C25: the remembered best key is a copy of its own: during a call no
\* shuffle and no in-place swap of the working key changes it; it changes only
\* when a round has scored strictly higher, and then to that round's key
C25_BestKeyIsCopy ==
    [][/\ Running /\ ~NewBestStep => best_key' = best_key
       /\ NewBestStep => best_key' = key]_vars

\* after a round set a best, a later round has shuffled the working key and
\* committed a swap in it without scoring higher
C25_Witness ==
    /\ pc = "climbed"
    /\ hist.n >= 2
    /\ local_maximum > 0
    /\ max_fitness > 0
    /\ max_fitness <= local_maximum
    /\ best_key # key

\* C26: the shared data is read-only: no step of a call after the lists are
\* built, and no step of a hill climb, changes the score table, cipher_bin or
\* char_positions (they are built once per call, not per round); a climb
\* changes only the working key, its plaintext buffer and its own locals
C26_SharedDataReadOnly ==
    [][/\ quadgrams' = quadgrams
       /\ Running => cipher_bin' = cipher_bin /\ char_positions' = char_positions
       /\ InRound =>
             UNCHANGED <<self_key, ciphertext, max_rounds, consolidate, local_maximum,
                         local_maximum_hit, best_key, round_cntr, next_round, nbr_keys,
                         outcome>>]_vars

\* two rounds have run over the lists built at the start of the call, and the
\* last one left a buffer and a key that differ from cipher_bin and the
\* identity key
C26_Witness ==
    /\ pc = "for"
    /\ hist.n >= 2
    /\ hist.projected
    /\ plaintext # cipher_bin
    /\ cipher_bin = ToList(_text_iterator(ciphertext, ModelAlphabet))
    /\ char_positions = CharPositions(cipher_bin)

-----------------------------------------------------------------------------
(* Properties of Key *)

NoDuplicates(str) == \A i, j \in DOMAIN str : str[i] = str[j] => i = j

\* Key(...) has been called
Constructed == kobj.exc # "None"

\* C9: round trip.  decode(encode(t)) = t and encode(decode(t)) = t for every
\* valid key and alphabet and every text t, also through the file variants.
\* (The code violates it.)
C9_RoundTrip ==
    (IsKey(kobj) /\ kout.back) => kout.val = ktext

\* C10: Key(key, alphabet) succeeds exactly when, lower-cased, the alphabet
\* and the key have no duplicates and have the same length and symbols; then
\* the stored alphabet and key are the lower-cased arguments, otherwise
\* AlphabetInvalid or KeyInvalid is raised and there is no Key object.
C10_KeyValidation ==
    Constructed =>
        LET la == lower(kargs.alphabet)
            lk == lower(kargs.key)
            valid == /\ NoDuplicates(la)
                     /\ NoDuplicates(lk)
                     /\ Len(lk) = Len(la)
                     /\ Range(lk) = Range(la)
        IN  /\ IsKey(kobj) <=> valid
            /\ IsKey(kobj) => kobj.alphabet = la /\ kobj.key = lk
            /\ ~IsKey(kobj) =>
                  /\ kobj.exc \in {"AlphabetInvalid", "KeyInvalid"}
                  /\ kobj = NoKey(kobj.exc, kobj.msg)

\* a key object built from arguments given in upper case
C10_Witness ==
    /\ IsKey(kobj)
    /\ Len(kobj.key) = 2
    /\ kargs.key # kobj.key
    /\ kargs.alphabet # kobj.alphabet

\* the upper-case form of a lower-case symbol (a symbol without a one-character
\* upper case is its own)
UpperOf(c) == IF c \in 97..122 THEN c - 32 ELSE c

\* the position of c in a string without duplicates
PosIn(str, c) == CHOOSE i \in DOMAIN str : str[i] = c

\* the image of character c under the substitution from[i] -> to[i], applied
\* in lower case to lower-case symbols and in upper case to their upper-case forms
Substitute(from, to, c) ==
    IF c \in Range(from) THEN to[PosIn(from, c)]
    ELSE IF \E i \in DOMAIN from : UpperOf(from[i]) = c
    THEN UpperOf(to[CHOOSE i \in DOMAIN from : UpperOf(from[i]) = c])
    ELSE c

\* character c belongs to the string in neither case
Outside(str, c) == \A i \in DOMAIN str : c # str[i] /\ c # UpperOf(str[i])

\* C11: encode and decode are position-for-position: the output is as long as
\* the input, a character outside the alphabet (in either case) stays, a
\* lower-case symbol becomes the lower-case substitute and an upper-case symbol
\* the upper-case substitute; the identity key returns the text unchanged.
C11_PositionForPosition ==
    (IsKey(kobj) /\ kout.op \in {"encode", "decode"} /\ ~kout.back) =>
        LET la == lower(kargs.alphabet)
            lk == lower(kargs.key)
            from == IF kout.op = "encode" THEN la ELSE lk
            to == IF kout.op = "encode" THEN lk ELSE la
        IN  /\ Len(kout.val) = Len(ktext)
            /\ \A i \in DOMAIN ktext :
                  /\ kout.val[i] = Substitute(from, to, ktext[i])
                  /\ Outside(la, ktext[i]) => kout.val[i] = ktext[i]
            /\ lk = la => kout.val = ktext

\* an upper-case symbol replaced next to a character outside the alphabet
C11_Witness ==
    /\ IsKey(kobj)
    /\ kout.op = "encode"
    /\ ~kout.back
    /\ lower(kargs.key) # lower(kargs.alphabet)
    /\ \E i, j \in DOMAIN ktext :
          /\ Outside(lower(kargs.alphabet), ktext[i])
          /\ ktext[j] \notin Range(lower(kargs.alphabet))
          /\ ~Outside(lower(kargs.alphabet), ktext[j])
          /\ kout.val[j] # ktext[j]
          /\ kout.val[j] \in 65..90

\* the exception Key(...) raised
KeyRaised(exc, msg) == kobj.exc = exc /\ kobj.msg = msg

\* C28: when several rules are violated the error reported follows the order
\* of the checks: duplicate alphabet symbols (AlphabetInvalid, unique), then
\* duplicate key symbols (KeyInvalid, unique), then a length mismatch, then a
\* symbol-set mismatch, which is therefore raised only for a duplicate-free
\* key as long as the alphabet
C28_ErrorPrecedence ==
    Constructed =>
        LET la == lower(kargs.alphabet)
            lk == lower(kargs.key)
        IN  /\ IF ~NoDuplicates(la)
               THEN KeyRaised("AlphabetInvalid", "alphabet characters must be unique")
               ELSE IF ~NoDuplicates(lk)
               THEN KeyRaised("KeyInvalid", "key characters must be unique")
               ELSE IF Len(lk) # Len(la)
               THEN KeyRaised("KeyInvalid", "key must be as long as the alphabet")
               ELSE IF Range(lk) # Range(la)
               THEN KeyRaised("KeyInvalid",
                              "key must use the same set of characters than the alphabet")
               ELSE IsKey(kobj)
            /\ kobj.msg = "key must use the same set of characters than the alphabet" =>
                  NoDuplicates(lk) /\ Len(lk) = Len(la)

\* a key with a duplicate that is also longer than the alphabet and uses a
\* symbol the alphabet does not have
C28_Witness ==
    /\ Constructed
    /\ kobj.msg = "key characters must be unique"
    /\ Len(kargs.key) # Len(kargs.alphabet)
    /\ Range(lower(kargs.key)) # Range(lower(kargs.alphabet))

-----------------------------------------------------------------------------
(* Properties of the stand-alone calls *)

TooFewMessage == "More than three characters from the given alphabet are required"

\* C12: calc_fitness and calc_fitness_file raise the "More than three
\* characters" ValueError when the input holds fewer than 4 qualifying symbols,
\* however many other characters surround them, and return a score otherwise.
C12_FitnessNeedsFour ==
    fcall.op \in {"calc_fitness", "calc_fitness_file"} =>
        IF Qualifying(fcall.text) < 4
        THEN fret.exc = "ValueError" /\ fret.msg = TooFewMessage
        ELSE /\ fret.exc = ""
             /\ fret.val \in Int \X Int
             /\ fret.val[2] = Qualifying(fcall.text) - 3

\* three qualifying symbols among five characters
C12_Witness ==
    /\ fcall.op = "calc_fitness"
    /\ Len(fcall.text) = 5
    /\ Qualifying(fcall.text) = 3
    /\ fret.exc = "ValueError"

\* the four 5-bit digits of a packed code
Digits(code) ==
    {(code \div (32 * 32 * 32)) % 32, (code \div (32 * 32)) % 32, (code \div 32) % 32, code % 32}

\* the symbols of a corpus that qualify for an alphabet, counted by position
QualifyingFor(alphabet, txt) ==
    Cardinality({i \in DOMAIN txt : LowerChar(txt[i]) \in Range(lower(alphabet))})

\* an alphabet generate_quadgrams accepts
AcceptableAlphabet(alphabet) ==
    NoDuplicates(lower(alphabet)) /\ Len(alphabet) <= MaxAlphabetLen

\* C13: for an alphabet of unique symbols with length <= 32 and a corpus with
\* at least one quadgram, the written model has a table of exactly 32^4
\* integer entries, and every entry whose code holds a digit >= len(alphabet)
\* is zero.
C13_TableShape ==
    (/\ fcall.op = "generate_quadgrams"
     /\ AcceptableAlphabet(fcall.alphabet)
     /\ QualifyingFor(fcall.alphabet, fcall.text) >= 4) =>
        /\ fret.exc = ""
        /\ fret.written # <<>>
        /\ fret.written.quadgrams.len = 1048576
        /\ \A code \in DOMAIN fret.written.quadgrams.at :
              /\ code \in 0..(fret.written.quadgrams.len - 1)
              /\ fret.written.quadgrams.at[code] \in Int
              /\ (\E d \in Digits(code) : d >= Len(fcall.alphabet)) =>
                    fret.written.quadgrams.at[code] = 0

\* a model of three quadgrams, two of them the same, over a two-symbol alphabet
C13_Witness ==
    /\ fcall.op = "generate_quadgrams"
    /\ Len(fcall.alphabet) = 2
    /\ fret.exc = ""
    /\ fret.written # <<>>
    /\ Cardinality({c \in DOMAIN fret.written.quadgrams.at :
                        fret.written.quadgrams.at[c] > 0}) = 2
    /\ fret.written.nbr_quadgrams = 3

AtPositions(str, keep) ==
    [n \in 1..Cardinality(keep) |->
        str[CHOOSE i \in keep : Cardinality({j \in keep : j < i}) = n - 1]]

\* the distinct characters of str in the order of their first occurrence
FirstOccurrences(str) ==
    AtPositions(str, {i \in DOMAIN str : \A j \in 1..(i - 1) : str[j] # str[i]})

\* C15: for an alphabet of unique symbols and a keyword whose characters
\* (case-insensitive) all belong to it, build_key_from_keyword returns the
\* keyword's distinct characters in first-occurrence order followed by the
\* remaining alphabet symbols in alphabet order; the result is a permutation
\* of the alphabet and passes check_key.
C15_KeywordKey ==
    (/\ fcall.op = "build_key_from_keyword"
     /\ NoDuplicates(lower(fcall.alphabet))
     /\ Range(lower(fcall.text)) \subseteq Range(lower(fcall.alphabet))) =>
        LET la == lower(fcall.alphabet)
            lkw == lower(fcall.text)
        IN  /\ fret.exc = ""
            /\ fret.val = FirstOccurrences(lkw)
                            \o AtPositions(la, {i \in DOMAIN la : la[i] \notin Range(lkw)})
            /\ Len(fret.val) = Len(la)
            /\ Range(fret.val) = Range(la)
            /\ NoDuplicates(fret.val)
            /\ check_key(fret.val, la).exc = ""
            /\ IsKey(KeyInit(fret.val, fcall.alphabet))

\* a keyword in mixed case with a repeated letter that reorders the alphabet
C15_Witness ==
    /\ fcall.op = "build_key_from_keyword"
    /\ NoDuplicates(lower(fcall.alphabet))
    /\ Len(fcall.text) = 3
    /\ Cardinality(Range(lower(fcall.text))) = 2
    /\ fcall.text # lower(fcall.text)
    /\ fret.exc = ""
    /\ fret.val # lower(fcall.alphabet)
    /\ Len(fret.val) > 3

\* the qualifying characters of a text, and the alphabet index of one
QualifyingChars(text) ==
    SelectSeq(text, LAMBDA c : \E i \in DOMAIN ModelAlphabet : ModelAlphabet[i] = LowerChar(c))

SymbolOf(c) == (CHOOSE i \in DOMAIN ModelAlphabet : ModelAlphabet[i] = LowerChar(c)) - 1

SymbolsOf(text) == [k \in 1..Len(QualifyingChars(text)) |-> SymbolOf(QualifyingChars(text)[k])]

\* the sum of the scores of the windows of s that end at positions 4..k
RECURSIVE WindowSum(_, _, _)
WindowSum(table, s, k) ==
    IF k < 4 THEN 0
    ELSE WindowSum(table, s, k - 1) + Quadgram(table, Pack(s[k - 3], s[k - 2], s[k - 1], s[k]))

\* the rolling code after the first k symbols of s, from the code 0
RECURSIVE Rolled(_, _)
Rolled(s, k) == IF k = 0 THEN 0 ELSE Roll(Rolled(s, k - 1), s[k])

\* C27: for a text with n >= 4 qualifying symbols s_0..s_(n-1) (other
\* characters dropped, case ignored) calc_fitness returns the sum over the
\* windows of scores[s_(k-3)*32^3 + s_(k-2)*32^2 + s_(k-1)*32 + s_k], to be
\* divided by n-3 and by 10; the rolling code is at every symbol the packing of
\* the last four symbols and stays in [0, 2^20); the full rescoring of the
\* hill climber gives the same sum for the same symbols
C27_FitnessFormula ==
    fcall.op \in {"calc_fitness", "calc_fitness_file"} =>
        LET s == SymbolsOf(fcall.text)
            n == Len(s)
        IN  n >= 4 =>
              /\ fret.exc = ""
              /\ fret.val = <<WindowSum(quadgrams, s, n), n - 3>>
              /\ \A k \in 4..n :
                    /\ Rolled(s, k) = Pack(s[k - 3], s[k - 2], s[k - 1], s[k])
                    /\ Rolled(s, k) \in 0..(TableSize - 1)
              /\ Rescore(quadgrams, ToList(s)) = WindowSum(quadgrams, s, n)

\* five qualifying symbols in both cases, the first one not 0 (the mask has a
\* bit to drop), with a scoring window
C27_Witness ==
    /\ fcall.op = "calc_fitness"
    /\ Len(SymbolsOf(fcall.text)) = 5
    /\ SymbolsOf(fcall.text)[1] # 0
    /\ \E i \in DOMAIN fcall.text : fcall.text[i] \in 65..90
    /\ fret.val[1] > 0

\* C29: generate_quadgrams fails with an error and writes no model whenever
\* the corpus, projected through the alphabet, is too short for a window of
\* four symbols: with fewer than 3 qualifying symbols the iterator runs out,
\* and with exactly 3 no quadgram is counted
C29_ShortCorpusFails ==
    (fcall.op = "generate_quadgrams" /\ QualifyingFor(fcall.alphabet, fcall.text) < 4) =>
        /\ fret.exc # ""
        /\ fret.written = <<>>
        /\ AcceptableAlphabet(fcall.alphabet) =>
              fret.exc = IF QualifyingFor(fcall.alphabet, fcall.text) < 3
                         THEN "StopIteration"
                         ELSE "ZeroDivisionError"

\* a corpus of six characters read to its end, three of them qualifying
C29_Witness ==
    /\ fcall.op = "generate_quadgrams"
    /\ AcceptableAlphabet(fcall.alphabet)
    /\ Len(fcall.text) = MaxCorpusLen
    /\ QualifyingFor(fcall.alphabet, fcall.text) = 3
    /\ fret.exc = "ZeroDivisionError"
    /\ fret.read = Len(fcall.text)
    /\ fret.written = <<>>

\* the strictly positive entries of a table of raw counts
PositiveCounts(counts) == {counts[c] : c \in DOMAIN counts} \ {0}

\* C30: the minCount that generate_quadgrams uses for the floor and the offset
\* is the smallest strictly positive raw count of the corpus, for every corpus
\* with at least one quadgram, whatever the size of the counts
C30_MinCountIsSmallestPositive ==
    (fcall.op = "quadgram_min" /\ fret.exc = "") =>
        /\ PositiveCounts(fret.val[1]) # {}
        /\ fret.val[2] \in PositiveCounts(fret.val[1])
        /\ \A v \in PositiveCounts(fret.val[1]) : fret.val[2] <= v

====
